---- MODULE Spec2Model ----
(***************************************************************************)
(* The CreateEmployee modal of src/app/emps/add-emps/page.tsx as a state   *)
(* machine: the react-hook-form control (values, default values, errors),  *)
(* the mutation observer of useCreateMutation, the feedback paragraph, the *)
(* snackbar, the close intervals registered by onSubmit, and the props     *)
(* (isOpen, employeeData) its parent feeds it.                             *)
(***************************************************************************)
EXTENDS Naturals, Sequences, FiniteSets

VARIABLES
    employeeData,     \* prop: None, or Some(record) of the employee being edited
    isOpen,           \* prop: the parent's visibility flag
    form,             \* useForm control: values, defaultValues, errors, isSubmitted
    feedbackMessage,  \* useState<string | null>: None or Some(text)
    snackbarConfig,   \* useState {open, message, severity}
    status,           \* mutation observer: "idle", "pending", "success", "error"
    error,            \* mutation observer: None or Some(thrown value)
    inflight,         \* mutation requests issued and not yet completed
    timers,           \* number of intervals registered by setInterval(onClose, 3000)
    submits,          \* history: number of calls of onSubmit since mount
    closedBy          \* history: who invoked onClose last while the modal was open

vars == <<employeeData, isOpen, form, feedbackMessage, snackbarConfig, status,
          error, inflight, timers, submits, closedBy>>

(* ------------------------------ bounds --------------------------------- *)

\* onSubmit calls the model follows (each one registers an interval for good).
MaxSubmits == 2
\* Required fields the user leaves invalid at the same time in one edit.
MaxBad == 1

(* --------------------------- JavaScript values ------------------------- *)

None == << >>
Some(x) == << x >>

JsStr(s) == [t |-> "string", s |-> s]
JsFalse == [t |-> "boolean", s |-> "false"]
JsDate(s) == [t |-> "Date", s |-> s]
JsError(m) == [t |-> "Error", s |-> m]

\* JavaScript truthiness of the values above.
Truthy(v) == IF v.t = "string" THEN v.s # "" ELSE v.t # "boolean" \/ v.s = "true"

\* v + "": a string is itself, an Error prints as "Error: <message>".
ToStr(v) ==
    IF v.t = "Error" THEN (IF v.s = "" THEN "Error" ELSE "Error: " \o v.s) ELSE v.s

(* ------------------------------ the form ------------------------------- *)

RequiredFields == {"name", "dob", "phone", "email", "address", "department_id", "job_id"}
Fields == RequiredFields \cup {"password"}

ValidDates == {"1990-05-17"}
ValidEmails == {"bob@example.com"}

\* What the inputs can hold, per field.
FieldValues(f) ==
    CASE f = "name" -> {"", "Bob"}
      [] f = "dob" -> {"", "not-a-date", "1990-05-17"}
      [] f = "phone" -> {"", "555-0100"}
      [] f = "email" -> {"", "bob", "bob@example.com"}
      [] f = "password" -> {"", "hunter2"}
      [] f = "address" -> {"", "1 Main St"}
      [] f = "department_id" -> {"", "d1"}
      [] f = "job_id" -> {"", "j1"}

\* defaultValues: {} shows as empty inputs.
EmptyForm == [f \in Fields |-> ""]

FilledForm ==
    [name |-> "Bob", dob |-> "1990-05-17", phone |-> "555-0100",
     email |-> "bob@example.com", password |-> "", address |-> "1 Main St",
     department_id |-> "d1", job_id |-> "j1"]

\* The existing records the parent can pass in.
EmployeeRecords ==
    { [id |-> "42", fields |-> [FilledForm EXCEPT !.password = "hunter2"]],
      [id |-> "7", fields |-> FilledForm] }

\* The schema with job_id left optional.
schemaJobOptional(f, v) ==
    CASE f = "name" -> IF v = "" THEN "Employee name is required" ELSE ""
      [] f = "dob" -> IF v \notin ValidDates THEN "Invalid date format" ELSE ""
      [] f = "phone" -> IF v = "" THEN "Phone number is required" ELSE ""
      [] f = "email" -> IF v = "" THEN "Email is required"
                        ELSE IF v \notin ValidEmails THEN "Invalid email format" ELSE ""
      [] f = "address" -> IF v = "" THEN "Address is required" ELSE ""
      [] f = "department_id" -> IF v = "" THEN "Department ID is required" ELSE ""
      [] OTHER -> ""

\* yup schema: the first failing test of a field gives its message, "" when none fails.
schema(f, v) ==
    CASE f = "name" -> IF v = "" THEN "Employee name is required" ELSE ""
      [] f = "dob" -> IF v \notin ValidDates THEN "Invalid date format" ELSE ""
      [] f = "phone" -> IF v = "" THEN "Phone number is required" ELSE ""
      [] f = "password" -> ""
      [] f = "email" -> IF v = "" THEN "Email is required"
                        ELSE IF v \notin ValidEmails THEN "Invalid email format" ELSE ""
      [] f = "address" -> IF v = "" THEN "Address is required" ELSE ""
      [] f = "department_id" -> IF v = "" THEN "Department ID is required" ELSE ""
      [] f = "job_id" -> IF v = "" THEN "Job ID is required" ELSE ""

\* yupResolver(schema): the errors object has a key for each field that fails.
yupResolver(values) ==
    [f \in {g \in Fields : schema(g, values[g]) # ""} |-> schema(f, values[f])]

\* The values yupResolver hands to onSubmit: the schema's cast, dob as a Date.
Cast(values) ==
    [f \in Fields |-> IF f = "dob" THEN JsDate(values[f]) ELSE JsStr(values[f])]

\* An errors object without keys.
NoErrors == [f \in {} |-> ""]

\* reset(values): the values become the new defaults; reset(): back to the defaults.
reset(fm, arg) ==
    LET d == IF arg = None THEN fm.defaultValues ELSE arg[1]
    IN  [values |-> d, defaultValues |-> d, errors |-> NoErrors, isSubmitted |-> FALSE]

\* The forms an edit can leave in the inputs: at most MaxBad required fields invalid.
FormInputs ==
    { v \in [name : FieldValues("name"), dob : FieldValues("dob"),
             phone : FieldValues("phone"), email : FieldValues("email"),
             password : FieldValues("password"), address : FieldValues("address"),
             department_id : FieldValues("department_id"),
             job_id : FieldValues("job_id")] :
        Cardinality({f \in RequiredFields :
                        \/ v[f] = ""
                        \/ f = "dob" /\ v[f] \notin ValidDates
                        \/ f = "email" /\ v[f] \notin ValidEmails}) <= MaxBad }

(* ------------------------- the component's code ------------------------ *)

\* useEffect on [employeeData, reset]: hydrate the form from the record.
HydrateEffect(fm, ed) ==
    IF ed # None THEN reset(fm, Some(ed[1].fields)) ELSE reset(fm, None)

\* The request target without the update branch.
endpointCreateOnly(ed) == "/emp/create"

\* The request target, computed on every render from the prop.
endpoint(ed) ==
    IF ed # None THEN "/emp/update/" \o ed[1].id ELSE "/emp/create"

\* The payload with the password forwarded in both modes.
PayloadWithPassword(data, ed) ==
    [name |-> data.name, dob |-> data.dob, phone |-> data.phone,
     email |-> data.email, address |-> data.address,
     department_id |-> data.department_id, job_id |-> data.job_id,
     password |-> data.password]

\* The object onSubmit hands to addEmployee.
Payload(data, ed) ==
    [name |-> data.name, dob |-> data.dob, phone |-> data.phone,
     email |-> data.email, address |-> data.address,
     department_id |-> data.department_id, job_id |-> data.job_id,
     password |-> IF ed = None THEN data.password ELSE JsFalse]

FallbackText == "Failed to process the request. Please try again."

\* errorEmployee + "" || "Failed to process the request. Please try again."
FeedbackText(err) ==
    IF Truthy(JsStr(ToStr(err))) THEN ToStr(err) ELSE FallbackText

\* The result effect with a reset in the error branch too.
ResultEffectResetOnError(st, err, ed, fm, snack, fb) ==
    IF st = "success"
    THEN [form |-> reset(fm, None),
          snackbarConfig |->
              [open |-> TRUE,
               message |-> IF ed # None THEN "Employee updated successfully!"
                           ELSE "Employee created successfully!",
               severity |-> "success"],
          feedbackMessage |-> fb]
    ELSE IF st = "error"
    THEN [form |-> reset(fm, None), snackbarConfig |-> snack,
          feedbackMessage |-> Some(FeedbackText(err[1]))]
    ELSE [form |-> fm, snackbarConfig |-> snack, feedbackMessage |-> fb]

\* useEffect on the mutation result: what it makes of the form, the snackbar and
\* the feedback message, given the observer's state st and the prop ed.
ResultEffect(st, err, ed, fm, snack, fb) ==
    IF st = "success"
    THEN [form |-> reset(fm, None),
          snackbarConfig |->
              [open |-> TRUE,
               message |-> IF ed # None THEN "Employee updated successfully!"
                           ELSE "Employee created successfully!",
               severity |-> "success"],
          feedbackMessage |-> fb]
    ELSE IF st = "error"
    THEN [form |-> fm, snackbarConfig |-> snack,
          feedbackMessage |-> Some(FeedbackText(err[1]))]
    ELSE [form |-> fm, snackbarConfig |-> snack, feedbackMessage |-> fb]

\* A submit button that is never disabled.
SubmitAlwaysEnabled == TRUE

\* disabled={isPendingEmployee}: the submit button takes a click.
SubmitEnabled == status # "pending"

\* useCreateMutation's mutate: the observer turns pending and the request leaves.
addEmployee(body) ==
    /\ status' = "pending"
    /\ error' = None
    /\ inflight' = Append(inflight, [endpoint |-> endpoint(employeeData), body |-> body])

\* The parent's close callback: it hides the modal.
onClose(who) ==
    /\ isOpen' = FALSE
    /\ closedBy' = IF isOpen THEN who ELSE closedBy

\* onSubmit without setFeedbackMessage(null).
onSubmitKeepFeedback(data) ==
    /\ submits < MaxSubmits
    /\ feedbackMessage' = feedbackMessage
    /\ addEmployee(Payload(data, employeeData))
    /\ timers' = timers + 1
    /\ submits' = submits + 1

\* onSubmit: clear the feedback, fire the mutation, register the close interval.
onSubmit(data) ==
    /\ submits < MaxSubmits
    /\ feedbackMessage' = None
    /\ addEmployee(Payload(data, employeeData))
    /\ timers' = timers + 1
    /\ submits' = submits + 1

(* ------------------------------- actions ------------------------------- *)

Init ==
    /\ employeeData \in {None} \cup {Some(r) : r \in EmployeeRecords}
    /\ isOpen = FALSE
    /\ form = HydrateEffect([values |-> EmptyForm,
                             defaultValues |-> IF employeeData # None
                                               THEN employeeData[1].fields
                                               ELSE EmptyForm,
                             errors |-> NoErrors, isSubmitted |-> FALSE],
                            employeeData)
    /\ feedbackMessage = None
    /\ snackbarConfig = [open |-> FALSE, message |-> "", severity |-> "success"]
    /\ status = "idle"
    /\ error = None
    /\ inflight = << >>
    /\ timers = 0
    /\ submits = 0
    /\ closedBy = "none"

\* The user edits inputs (register's onChange); the password input exists in
\* create mode only.  After a submit, the changed fields are validated again.
Edit ==
    /\ isOpen
    /\ \E v \in FormInputs :
        /\ v # form.values
        /\ employeeData # None => v.password = form.values.password
        /\ form' = [form EXCEPT
                !.values = v,
                !.errors =
                    IF form.isSubmitted
                    THEN [f \in {g \in Fields :
                                    IF v[g] # form.values[g]
                                    THEN schema(g, v[g]) # ""
                                    ELSE g \in DOMAIN form.errors} |->
                            IF v[f] # form.values[f] THEN schema(f, v[f])
                            ELSE form.errors[f]]
                    ELSE form.errors]
    /\ UNCHANGED <<employeeData, isOpen, feedbackMessage, snackbarConfig, status,
                   error, inflight, timers, submits, closedBy>>

\* <form onSubmit={handleSubmit(onSubmit)}>: validate, then onSubmit or the errors.
handleSubmit ==
    /\ isOpen
    /\ SubmitEnabled
    /\ LET errs == yupResolver(form.values) IN
        IF DOMAIN errs # {}
        THEN /\ form' = [form EXCEPT !.errors = errs, !.isSubmitted = TRUE]
             /\ UNCHANGED <<feedbackMessage, status, error, inflight, timers, submits>>
        ELSE /\ form' = [form EXCEPT !.errors = NoErrors, !.isSubmitted = TRUE]
             /\ onSubmit(Cast(form.values))
    /\ UNCHANGED <<employeeData, isOpen, snackbarConfig, closedBy>>

\* The observer's state after request i (of the in-flight ones) completed: it
\* follows the latest mutate only.
Settle(i, st, err) ==
    /\ inflight' = [j \in 1..(Len(inflight) - 1) |->
                        IF j < i THEN inflight[j] ELSE inflight[j + 1]]
    /\ IF i = Len(inflight)
       THEN /\ status' = st
            /\ error' = err
            /\ LET r == ResultEffect(st, err, employeeData, form, snackbarConfig,
                                     feedbackMessage) IN
                /\ form' = r.form
                /\ snackbarConfig' = r.snackbarConfig
                /\ feedbackMessage' = r.feedbackMessage
       ELSE UNCHANGED <<status, error, form, snackbarConfig, feedbackMessage>>
    /\ UNCHANGED <<employeeData, isOpen, timers, submits, closedBy>>

\* Values a failed request can be rejected with.
ThrownValues == {JsError("Network Error"), JsStr("")}

MutationSuccess == \E i \in 1..Len(inflight) : Settle(i, "success", None)

MutationFailure ==
    \E i \in 1..Len(inflight) : \E e \in ThrownValues : Settle(i, "error", Some(e))

\* A one-shot timer (setTimeout): it is gone once it has run.
TimerFireOnce ==
    /\ timers > 0
    /\ onClose("timer")
    /\ timers' = timers - 1
    /\ UNCHANGED <<employeeData, form, feedbackMessage, snackbarConfig, status,
                   error, inflight, submits>>

\* One of the intervals registered by onSubmit ticks.
TimerFire ==
    /\ timers > 0
    /\ onClose("timer")
    /\ UNCHANGED <<employeeData, form, feedbackMessage, snackbarConfig, status,
                   error, inflight, timers, submits>>

\* The x button, or onRequestClose of the overlay.
UserClose ==
    /\ isOpen
    /\ onClose("user")
    /\ UNCHANGED <<employeeData, form, feedbackMessage, snackbarConfig, status,
                   error, inflight, timers, submits>>

\* The snackbar's onClose.
CloseSnackbar ==
    /\ isOpen
    /\ snackbarConfig.open
    /\ snackbarConfig' = [snackbarConfig EXCEPT !.open = FALSE]
    /\ UNCHANGED <<employeeData, isOpen, form, feedbackMessage, status, error,
                   inflight, timers, submits, closedBy>>

\* The parent shows the modal again.
ParentOpen ==
    /\ ~isOpen
    /\ isOpen' = TRUE
    /\ closedBy' = "none"
    /\ UNCHANGED <<employeeData, form, feedbackMessage, snackbarConfig, status,
                   error, inflight, timers, submits>>

\* The parent passes another record (or none): both effects run again, the
\* hydration first.
SetEmployeeData ==
    \E ed \in {None} \cup {Some(r) : r \in EmployeeRecords} :
        /\ ed # employeeData
        /\ employeeData' = ed
        /\ LET r == ResultEffect(status, error, ed, HydrateEffect(form, ed),
                                 snackbarConfig, feedbackMessage) IN
            /\ form' = r.form
            /\ snackbarConfig' = r.snackbarConfig
            /\ feedbackMessage' = r.feedbackMessage
        /\ UNCHANGED <<isOpen, status, error, inflight, timers, submits, closedBy>>

Next ==
    \/ Edit
    \/ handleSubmit
    \/ MutationSuccess
    \/ MutationFailure
    \/ TimerFire
    \/ UserClose
    \/ CloseSnackbar
    \/ ParentOpen
    \/ SetEmployeeData

Spec == Init /\ [][Next]_vars

\* Requests complete and intervals tick; nothing obliges the user or the parent.
LiveSpec ==
    Spec /\ WF_vars(MutationSuccess \/ MutationFailure) /\ WF_vars(TimerFire)

(* ------------------------------- claims -------------------------------- *)

\* The required fields of a form that are empty or ill-formed.
Offending(v) ==
    {f \in RequiredFields :
        \/ v[f] = ""
        \/ f = "dob" /\ v[f] \notin ValidDates
        \/ f = "email" /\ v[f] \notin ValidEmails}

\* The request a step issues, if it issues one.
Issued == Len(inflight') > Len(inflight)
NewRequest == inflight'[Len(inflight')]

\* The observer leaves "pending" for st in this step.
Completes(st) == status = "pending" /\ status' = st

\* C1: a submit attempt on a form with an empty or ill-formed required field
\* issues no request, leaves the mutation state as it was, and gives every
\* offending field, and no other, an error message of its own.
C1_InvalidSubmitIssuesNothing ==
    [][(handleSubmit /\ Offending(form.values) # {}) =>
        /\ inflight' = inflight
        /\ status' = status
        /\ error' = error
        /\ submits' = submits
        /\ DOMAIN form'.errors = Offending(form.values)
        /\ \A f \in Offending(form.values) :
            /\ form'.errors[f] # ""
            /\ \A g \in Offending(form.values) \ {f} :
                form'.errors[g] # form'.errors[f]]_vars

\* Reached: the untouched create form was submitted, all seven required fields
\* carry an error and nothing was sent.
C1_Witness ==
    /\ form.isSubmitted
    /\ form.values = EmptyForm
    /\ DOMAIN form.errors = RequiredFields
    /\ status = "idle"
    /\ inflight = << >>

\* C2: a request issued in update mode carries no password string, whatever
\* password the form state holds; one issued in create mode with the password
\* filled in carries that password.
C2_PasswordOnlyOnCreate ==
    [][Issued =>
        /\ employeeData # None => NewRequest.body.password.t # "string"
        /\ (employeeData = None /\ form.values.password # "") =>
                NewRequest.body.password = JsStr(form.values.password)]_vars

\* Reached: an update request is in flight without a password although the
\* form state holds one.
C2_Witness ==
    /\ employeeData # None
    /\ form.values.password = "hunter2"
    /\ Len(inflight) = 1
    /\ inflight[1].endpoint = "/emp/update/42"
    /\ inflight[1].body.password = JsFalse

\* C3: a request targets /emp/create exactly when no record is passed in, and
\* /emp/update/{id} of the passed record otherwise.
C3_EndpointFollowsMode ==
    [][Issued =>
        /\ employeeData = None <=> NewRequest.endpoint = "/emp/create"
        /\ employeeData # None =>
                NewRequest.endpoint = "/emp/update/" \o employeeData[1].id]_vars

\* Reached: the record with id "7" is passed in and its update request is out.
C3_Witness ==
    /\ employeeData # None
    /\ employeeData[1].id = "7"
    /\ Len(inflight) = 1
    /\ inflight[1].endpoint = "/emp/update/7"

\* C4: at most one request is in flight; a request is issued only by onSubmit,
\* one per call, while none is pending; a failure issues none (no retry).
C4_SingleRequestInFlight ==
    /\ [](Len(inflight) <= 1)
    /\ [][/\ Issued => /\ status # "pending"
                       /\ inflight = << >>
                       /\ Len(inflight') = 1
                       /\ submits' = submits + 1
          /\ submits' # submits => Issued
          /\ Completes("error") => inflight' = << >>]_vars

\* Reached: a request is pending while the open form holds values that pass
\* validation, so only the disabled button stands between the user and a
\* second request.
C4_Witness ==
    /\ isOpen
    /\ status = "pending"
    /\ Len(inflight) = 1
    /\ Offending(form.values) = {}
    /\ submits < MaxSubmits

\* C5: a step that completes a request successfully resets the fields to the
\* defaults, opens the success snackbar and schedules the close callback.
C5_SuccessResetsNotifiesSchedules ==
    [][Completes("success") =>
        /\ form'.values = form.defaultValues
        /\ snackbarConfig'.open
        /\ snackbarConfig'.severity = "success"
        /\ timers' = timers + 1]_vars

\* C6: a step that completes a request with a failure shows the error text,
\* or the fallback when that text is empty, and leaves the field values alone.
C6_FailureKeepsValues ==
    [][Completes("error") =>
        /\ form'.values = form.values
        /\ feedbackMessage' # None
        /\ feedbackMessage'[1] # ""
        /\ feedbackMessage'[1] =
                IF ToStr(error'[1]) # "" THEN ToStr(error'[1]) ELSE FallbackText]_vars

\* Reached: a request failed with an empty error text, the fallback shows and
\* the fields still hold what the user entered.
C6_Witness ==
    /\ status = "error"
    /\ error = Some(JsStr(""))
    /\ feedbackMessage = Some(FallbackText)
    /\ form.values # form.defaultValues
    /\ Offending(form.values) = {}

\* C7: an open modal, whatever it is doing, comes back to an open form that
\* takes a submit, unless the user dismissed it.
C7_ReturnsToOpenIdleForm ==
    isOpen ~> ((isOpen /\ SubmitEnabled) \/ closedBy = "user")

\* C8: a close timer is registered only by a successful completion, and a
\* timer closes the modal only after a success.
C8_CloseTimerOnlyAfterSuccess ==
    [][/\ timers' > timers => Completes("success")
       /\ (isOpen /\ ~isOpen' /\ closedBy' = "timer") => status = "success"]_vars

\* C9: there are as many active timers as validated submits; none is ever
\* cancelled, and each tick calls the close callback and leaves the timer
\* active, whether the modal is open or not.
C9_TimersAccumulate ==
    /\ [](timers = submits)
    /\ [][/\ timers' >= timers
          /\ TimerFire => (timers' = timers /\ ~isOpen')]_vars

\* Reached: two intervals are active after the modal was closed by one of them
\* and opened again, with no request left.
C9_Witness ==
    /\ timers = 2
    /\ submits = 2
    /\ isOpen
    /\ closedBy = "none"
    /\ status = "error"
    /\ inflight = << >>

\* C10: the feedback message is set only while the latest mutation is in the
\* error state, and then to a non-empty string.
C10_FeedbackOnlyOnError ==
    feedbackMessage # None => (status = "error" /\ feedbackMessage[1] # "")

\* Reached: the second submit failed and its error text shows.
C10_Witness ==
    /\ submits = 2
    /\ status = "error"
    /\ feedbackMessage = Some("Error: Network Error")

====
